---- MODULE Spec2Model ----
(***************************************************************************)
(* A model of validation/geospatial/lpc_workflow.py: the grid split of a   *)
(* bounding box (square_split), the chunked routing of a point cloud into  *)
(* per-cell writers (partition_las), the per-partition raster jobs         *)
(* (create_dem, create_models) and the mosaic merges                       *)
(* (merge_dem_partitions, merge_partitions).                               *)
(*                                                                         *)
(* Coordinates are binary floating-point numbers.  The model keeps the     *)
(* rounding of every arithmetic step (round to nearest, ties to even) but  *)
(* with a mantissa of Prec bits instead of 53, and with the unit 1 as the  *)
(* smallest quantum; the inputs are chosen so that no step underflows.     *)
(***************************************************************************)
EXTENDS Integers, Sequences, FiniteSets, TLC

VARIABLES
    \* ---- square_split called on its own
    sq_in,          \* the arguments of the call
    sq_out,         \* the outcome of the call
    \* ---- partition_las
    source,         \* the points of the file, in file order
    pc,             \* where partition_las is
    sub_bounds,     \* line 33
    writers,        \* line 42: per partition "unopened" | "open" | "closed"
    closes,         \* how many times close() ran on each writer
    payload,        \* the points written through each writer, in order
    chunk_no,       \* number of chunks read so far
    points,         \* the chunk being scanned (line 46)
    part,           \* the loop index i of line 55, 1-based
    point_piped,    \* line 53
    exc,            \* the exception in flight inside the try block
    outcome,        \* what partition_las returned or raised
    faults,         \* failures injected so far
    read_failed,    \* history: chunk at which chunk_iterator raised (0: none)
    unrouted,       \* history: points of a chunk left unwritten by a break
    \* ---- create_dem / create_models / merge_dem_partitions / merge_partitions
    profile,        \* "dem": terrain only, "models": surface and terrain
    tiles,          \* per partition: pending, failed, or ready with its rasters
    last_op         \* the last job or merge run: inputs, outcome, files left

splitVars == <<sq_in, sq_out>>
routeVars == <<source, pc, sub_bounds, writers, closes, payload, chunk_no,
               points, part, point_piped, exc, outcome, faults, read_failed,
               unrouted>>
mergeVars == <<profile, tiles, last_op>>
vars == <<splitVars, routeVars, mergeVars>>

\* ------------------------------------------------------------------ bounds

\* Mantissa bits of the floating-point format (53 for a Python float).
Prec == 7
\* Longest source file, in points.
MaxPoints == 4
\* Points per chunk: chunk_iterator(1_000_000) at line 46, scaled down.
ChunkSize == 2
\* Failures injected into one run of partition_las.
MaxFaults == 1

\* ------------------------------------------------------- floating point

RECURSIVE Pow2(_)
Pow2(e) == IF e = 0 THEN 1 ELSE 2 * Pow2(e - 1)

\* The exponent of the binade that holds the non-negative integer q.
RECURSIVE ExpOf(_, _)
ExpOf(q, e) == IF q < Pow2(Prec + e) THEN e ELSE ExpOf(q, e + 1)

\* num/den >= 0 rounded to the nearest representable number, ties to even.
RndPos(num, den) ==
    LET ulp == Pow2(ExpOf(num \div den, 0))
        m   == num \div (den * ulp)
        rem == num - m * den * ulp
        up  == \/ 2 * rem > den * ulp
               \/ 2 * rem = den * ulp /\ m % 2 = 1
    IN  (IF up THEN m + 1 ELSE m) * ulp

Rnd(num, den) ==
    IF den < 0 THEN (IF num > 0 THEN -RndPos(num, -den) ELSE RndPos(-num, -den))
    ELSE IF num < 0 THEN -RndPos(-num, den) ELSE RndPos(num, den)

fadd(a, b) == Rnd(a + b, 1)
fsub(a, b) == Rnd(a - b, 1)
fmul(a, b) == Rnd(a * b, 1)
fdiv(a, b) == Rnd(a, b)

\* ------------------------------------------------------------ square_split

\* One cell of the grid: the body of the inner loop, lines 23-27.
Cell(x_min, y_min, x_size, y_size, i, j) ==
    LET x_min_bound == fadd(fmul(x_size, i), x_min)
        y_min_bound == fadd(fmul(y_size, j), y_min)
    IN  <<x_min_bound, y_min_bound,
          fadd(x_min_bound, x_size), fadd(y_min_bound, y_size)>>

\* Lines 16-28.  A split factor of 0 makes line 17 divide by zero; a negative
\* one makes both range() loops empty.
square_split(x_min, y_min, x_max, y_max, square_splits) ==
    IF square_splits = 0
    THEN [kind |-> "raised", error |-> "ZeroDivisionError", bounds |-> <<>>]
    ELSE LET x_size == fdiv(fsub(x_max, x_min), square_splits)
             y_size == fdiv(fsub(y_max, y_min), square_splits)
             n      == IF square_splits > 0 THEN square_splits ELSE 0
         IN  [kind   |-> "returned",
              error  |-> "none",
              bounds |-> [k \in 1..(n * n) |->
                            Cell(x_min, y_min, x_size, y_size,
                                 (k - 1) \div n, (k - 1) % n)]]

\* -------------------------------------------- square_split called on its own

\* Boxes with x_min < x_max and y_min < y_max, and split factors around 0.
SplitLows == {0, 8, 24}
SplitHighs == {100, 250}
SplitFactors == {-1, 0, 1, 2, 3}

\* The quotient a/n is exact or lies where the format has its full precision:
\* the smallest quantum of the model plays no part in it.
NoUnderflow(a, n) == n <= 0 \/ a % n = 0 \/ a \div n >= Pow2(Prec - 1)

SplitInputs ==
    {a \in [x_min : SplitLows, y_min : SplitLows, x_max : SplitHighs,
            y_max : SplitHighs, square_splits : SplitFactors] :
        /\ NoUnderflow(a.x_max - a.x_min, a.square_splits)
        /\ NoUnderflow(a.y_max - a.y_min, a.square_splits)}

NoCall == [kind |-> "none", error |-> "none", bounds |-> <<>>]
NoArgs == [x_min |-> 0, y_min |-> 0, x_max |-> 0, y_max |-> 0, square_splits |-> 0]

SplitIdle == sq_in = NoArgs /\ sq_out = NoCall

SquareSplitCall ==
    /\ sq_in # NoArgs
    /\ sq_out.kind = "none"
    /\ sq_out' = square_split(sq_in.x_min, sq_in.y_min, sq_in.x_max, sq_in.y_max,
                              sq_in.square_splits)
    /\ UNCHANGED <<sq_in, routeVars, mergeVars>>

SquareSplitNextCall ==
    /\ sq_out.kind # "none"
    /\ sq_in' \in SplitInputs
    /\ sq_out' = NoCall
    /\ UNCHANGED <<routeVars, mergeVars>>

\* ------------------------------------------------------------ partition_las

\* The constant passed as square_splits at line 38.
SplitFactor == 2

file_path == "file.las"

\* Points a source file is made of, as <<x, y>>.
Pool == {<<0, 0>>, <<24, 24>>, <<50, 50>>, <<50, 24>>, <<100, 100>>, <<250, 250>>}

RECURSIVE SeqsUpTo(_)
SeqsUpTo(n) ==
    IF n = 0 THEN {<<>>}
    ELSE LET shorter == SeqsUpTo(n - 1)
         IN  shorter \cup {Append(s, p) : s \in {t \in shorter : Len(t) = n - 1},
                                            p \in Pool}

Sources == SeqsUpTo(MaxPoints)

MinOf(S) == CHOOSE v \in S : \A w \in S : v <= w
MaxOf(S) == CHOOSE v \in S : \A w \in S : v >= w

\* The header of the file: the extent of its points and their number.
Header(src) ==
    LET xs == {src[k][1] : k \in 1..Len(src)}
        ys == {src[k][2] : k \in 1..Len(src)}
    IN  IF Len(src) = 0
        THEN [x_min |-> 0, y_min |-> 0, x_max |-> 0, y_max |-> 0, point_count |-> 0]
        ELSE [x_min |-> MinOf(xs), y_min |-> MinOf(ys),
              x_max |-> MaxOf(xs), y_max |-> MaxOf(ys), point_count |-> Len(src)]

\* Line 56: the closed-interval membership test of one point in one cell.
InBounds(p, b) == p[1] >= b[1] /\ p[1] <= b[3] /\ p[2] >= b[2] /\ p[2] <= b[4]

\* Line 56: the positions of the chunk selected by the mask of cell b.
Mask(pts, b) == {k \in 1..Len(pts) : InBounds(pts[k], b)}

\* Line 59: points[mask], in chunk order.
Masked(pts, b) == SelectSeq(pts, LAMBDA p : InBounds(p, b))

\* Line 73 and the end of the finally block: an exception in flight is
\* re-raised, otherwise the buffers are returned in partition order.
ExitSwallowing(e, bufs) ==
    [kind |-> "returned", error |-> "none",
     value |-> [k \in 1..Len(bufs) |-> <<file_path, k - 1, bufs[k]>>]]

Exit(e, bufs) ==
    IF e # "none"
    THEN [kind |-> "raised", error |-> e, value |-> <<>>]
    ELSE [kind |-> "returned", error |-> "none",
          value |-> [k \in 1..Len(bufs) |-> <<file_path, k - 1, bufs[k]>>]]

NotCalled == [kind |-> "none", error |-> "none", value |-> <<>>]

RouteIdle ==
    /\ source = <<>> /\ pc = "idle" /\ sub_bounds = <<>> /\ writers = <<>>
    /\ closes = <<>> /\ payload = <<>> /\ chunk_no = 0 /\ points = <<>>
    /\ part = 0 /\ point_piped = 0 /\ exc = "none" /\ outcome = NotCalled
    /\ faults = 0 /\ read_failed = 0 /\ unrouted = {}

RouteInit ==
    /\ source \in Sources /\ pc = "start" /\ sub_bounds = <<>> /\ writers = <<>>
    /\ closes = <<>> /\ payload = <<>> /\ chunk_no = 0 /\ points = <<>>
    /\ part = 0 /\ point_piped = 0 /\ exc = "none" /\ outcome = NotCalled
    /\ faults = 0 /\ read_failed = 0 /\ unrouted = {}

\* Lines 32-41: the header is read, the grid computed, one buffer made per cell.
Begin ==
    /\ pc = "start"
    /\ LET h == Header(source)
           b == square_split(h.x_min, h.y_min, h.x_max, h.y_max, SplitFactor).bounds
       IN  /\ sub_bounds' = b
           /\ writers' = [k \in 1..Len(b) |-> "unopened"]
           /\ closes' = [k \in 1..Len(b) |-> 0]
           /\ payload' = [k \in 1..Len(b) |-> <<>>]
    /\ pc' = "open_writers"
    /\ UNCHANGED <<source, chunk_no, points, part, point_piped, exc, outcome,
                   faults, read_failed, unrouted, splitVars, mergeVars>>

NextUnopened == MinOf({k \in 1..Len(writers) : writers[k] = "unopened"})

\* Line 42, one element of the list comprehension: the writer opens.
OpenWriter ==
    /\ pc = "open_writers"
    /\ writers' = [writers EXCEPT ![NextUnopened] = "open"]
    /\ pc' = IF NextUnopened = Len(writers) THEN "next_chunk" ELSE pc
    /\ UNCHANGED <<source, sub_bounds, closes, payload, chunk_no, points, part,
                   point_piped, exc, outcome, faults, read_failed, unrouted,
                   splitVars, mergeVars>>

\* Line 42: laspy.open raises.  The comprehension is outside the try block of
\* line 44, so the exception leaves partition_las at once.
OpenWriterFails ==
    /\ pc = "open_writers"
    /\ faults < MaxFaults
    /\ faults' = faults + 1
    /\ outcome' = [kind |-> "raised", error |-> "OpenError", value |-> <<>>]
    /\ pc' = "done"
    /\ UNCHANGED <<source, sub_bounds, writers, closes, payload, chunk_no, points,
                   part, point_piped, exc, read_failed, unrouted, splitVars,
                   mergeVars>>

ChunksIn(src) == (Len(src) + ChunkSize - 1) \div ChunkSize

\* Lines 46-53: chunk_iterator yields the next chunk.
ReadChunk ==
    /\ pc = "next_chunk"
    /\ chunk_no < ChunksIn(source)
    /\ LET first == chunk_no * ChunkSize + 1
           last  == IF first + ChunkSize - 1 > Len(source) THEN Len(source)
                    ELSE first + ChunkSize - 1
       IN  /\ points' = SubSeq(source, first, last)
           /\ unrouted' = 1..(last - first + 1)
    /\ chunk_no' = chunk_no + 1
    /\ part' = 1
    /\ point_piped' = 0
    /\ pc' = "scan"
    /\ UNCHANGED <<source, sub_bounds, writers, closes, payload, exc, outcome,
                   faults, read_failed, splitVars, mergeVars>>

\* Line 46: chunk_iterator raises on a malformed or truncated file.
ReadChunkFails ==
    /\ pc = "next_chunk"
    /\ chunk_no < ChunksIn(source)
    /\ faults < MaxFaults
    /\ faults' = faults + 1
    /\ exc' = "SourceReadError"
    /\ read_failed' = chunk_no + 1
    /\ pc' = "finally"
    /\ UNCHANGED <<source, sub_bounds, writers, closes, payload, chunk_no, points,
                   part, point_piped, outcome, unrouted, splitVars, mergeVars>>

\* Lines 46 and 67: the iterator is exhausted; the final progress line divides
\* by the header's point count.
EndOfFile ==
    /\ pc = "next_chunk"
    /\ chunk_no = ChunksIn(source)
    /\ exc' = IF Header(source).point_count = 0 THEN "ZeroDivisionError" ELSE exc
    /\ pc' = "finally"
    /\ UNCHANGED <<source, sub_bounds, writers, closes, payload, chunk_no, points,
                   part, point_piped, outcome, faults, read_failed, unrouted,
                   splitVars, mergeVars>>

\* Lines 63-65: the tally after the mask of cell `part`, and where the loop of
\* line 55 goes next.  The tally adds the size of every mask.
Piped == point_piped + Cardinality(Mask(points, sub_bounds[part]))

\* Lines 55-65, one iteration of the loop over sub_bounds.
ScanPartition ==
    /\ pc = "scan"
    /\ payload' = [payload EXCEPT
                     ![part] = payload[part] \o Masked(points, sub_bounds[part])]
    /\ unrouted' = unrouted \ Mask(points, sub_bounds[part])
    /\ point_piped' = Piped
    /\ IF Piped = Len(points)
       THEN /\ pc' = "next_chunk"                   \* break, line 65
            /\ part' = part
       ELSE IF part = Len(sub_bounds)
       THEN /\ pc' = "next_chunk"                   \* the loop is exhausted
            /\ part' = part + 1
       ELSE /\ pc' = pc
            /\ part' = part + 1
    /\ UNCHANGED <<source, sub_bounds, writers, closes, chunk_no, points, exc,
                   outcome, faults, read_failed, splitVars, mergeVars>>

\* Line 61: write_points raises.
WriteFails ==
    /\ pc = "scan"
    /\ Mask(points, sub_bounds[part]) # {}
    /\ faults < MaxFaults
    /\ faults' = faults + 1
    /\ exc' = "WriteError"
    /\ pc' = "finally"
    /\ UNCHANGED <<source, sub_bounds, writers, closes, payload, chunk_no, points,
                   part, point_piped, outcome, read_failed, unrouted, splitVars,
                   mergeVars>>

Unclosed == {k \in 1..Len(writers) : closes[k] = 0}

\* Lines 69-71, one iteration of the loop of the finally block.
CloseWriter ==
    /\ pc = "finally"
    /\ Unclosed # {}
    /\ writers' = [writers EXCEPT ![MinOf(Unclosed)] = "closed"]
    /\ closes' = [closes EXCEPT ![MinOf(Unclosed)] = @ + 1]
    /\ UNCHANGED <<source, pc, sub_bounds, payload, chunk_no, points, part,
                   point_piped, exc, outcome, faults, read_failed, unrouted,
                   splitVars, mergeVars>>

\* Line 71: close() raises.  The loop of the finally block has no handler, so
\* the exception leaves partition_las and replaces the one in flight.
CloseWriterFails ==
    /\ pc = "finally"
    /\ Unclosed # {}
    /\ faults < MaxFaults
    /\ faults' = faults + 1
    /\ writers' = [writers EXCEPT ![MinOf(Unclosed)] = "closed"]
    /\ closes' = [closes EXCEPT ![MinOf(Unclosed)] = @ + 1]
    /\ outcome' = [kind |-> "raised", error |-> "CloseError", value |-> <<>>]
    /\ pc' = "done"
    /\ UNCHANGED <<source, sub_bounds, payload, chunk_no, points, part,
                   point_piped, exc, read_failed, unrouted, splitVars, mergeVars>>

\* The finally block is done: the exception in flight is re-raised, or line 73
\* returns.
Leave ==
    /\ pc = "finally"
    /\ Unclosed = {}
    /\ outcome' = Exit(exc, payload)
    /\ pc' = "done"
    /\ UNCHANGED <<source, sub_bounds, writers, closes, payload, chunk_no, points,
                   part, point_piped, exc, faults, read_failed, unrouted,
                   splitVars, mergeVars>>

RouteNext ==
    \/ Begin \/ OpenWriter \/ OpenWriterFails \/ ReadChunk \/ ReadChunkFails
    \/ EndOfFile \/ ScanPartition \/ WriteFails \/ CloseWriter
    \/ CloseWriterFails \/ Leave

\* ------------------------------------------------------------ raster tiles

\* The 'nodata' value of the writers.gdal stage (lines 130, 201 and 257).
NoData == -9999

NumPartitions == SplitFactor * SplitFactor
Partitions == 0..(NumPartitions - 1)

\* The pixels of the tile of partition i, at <<column, row>> of the mosaic
\* grid.  Cell (ci, cj) of the grid of square_split is partition
\* ci * SplitFactor + cj; since neighbouring cells share their boundary
\* points, neighbouring tiles share one line of pixels.
Foot(i) ==
    LET ci == i \div SplitFactor
        cj == i % SplitFactor
    IN  {<<ci + 1, cj + 1>>, <<ci + 1, cj + 2>>, <<ci + 2, cj + 1>>, <<ci + 2, cj + 2>>}

\* The pixel shared by all the tiles.
Centre == <<SplitFactor, SplitFactor>>

\* A valid elevation that tells the kind and the partition of its tile.
Val(kind, i) == (IF kind = "dsm" THEN 20 ELSE 10) + i

\* What the pipeline writes for partition i: a raster of valid pixels, or one
\* with no data at the centre pixel.
Raster(kind, i, holes) ==
    [p \in Foot(i) |-> IF holes /\ p = Centre THEN NoData ELSE Val(kind, i)]

NoRaster == <<>>

\* rasterio.merge.merge as called at lines 313, 376 and 377, with its default
\* method 'first': the mosaic spans the bounding rectangle of the tiles, and
\* each pixel takes the value of the first dataset of the list that has valid
\* data there.
merge(datasets) ==
    LET covered == UNION {DOMAIN datasets[k] : k \in 1..Len(datasets)}
        cols == {p[1] : p \in covered}
        rows == {p[2] : p \in covered}
        Valid(k, p) == p \in DOMAIN datasets[k] /\ datasets[k][p] # NoData
    IN  [p \in (MinOf(cols)..MaxOf(cols)) \X (MinOf(rows)..MaxOf(rows)) |->
            IF \E k \in 1..Len(datasets) : Valid(k, p)
            THEN datasets[MinOf({k \in 1..Len(datasets) : Valid(k, p)})][p]
            ELSE NoData]

NoFault == [step |-> "none", k |-> 0]

\* ------------------------------------------------ create_dem, create_models

\* Lines 80-158.  `fault` is the step that raises, `gone` the temporary files
\* that no longer exist when the finally block runs.  Both os.remove calls of
\* the finally block swallow FileNotFoundError, so no file is left.
create_dem(path, partition, holes, fault, gone) ==
    LET created == IF fault.step = "write_laz" THEN {"laz"} ELSE {"laz", "dem"}
        removed == {"laz", "dem"}
    IN  [kind  |-> IF fault.step = "none" THEN "returned" ELSE "raised",
         error |-> fault.step,
         value |-> IF fault.step = "none"
                   THEN <<path, partition, Raster("dem", partition, holes)>>
                   ELSE <<>>,
         left  |-> (created \ gone) \ removed]

CreateDemFaults ==
    {NoFault} \cup {[step |-> f, k |-> 0] : f \in {"write_laz", "pipeline", "read_dem"}}

\* Lines 161-292: as create_dem, with the surface pipeline run first.
create_models(path, partition, holes, fault, gone) ==
    LET created == IF fault.step = "write_laz" THEN {"laz"}
                   ELSE IF fault.step = "dsm_pipeline" THEN {"laz", "dsm"}
                   ELSE {"laz", "dsm", "dem"}
        removed == {"laz", "dsm", "dem"}
    IN  [kind  |-> IF fault.step = "none" THEN "returned" ELSE "raised",
         error |-> fault.step,
         value |-> IF fault.step = "none"
                   THEN <<path, partition, Raster("dsm", partition, holes),
                          Raster("dem", partition, holes)>>
                   ELSE <<>>,
         left  |-> (created \ gone) \ removed]

CreateModelsFaults ==
    {NoFault} \cup {[step |-> f, k |-> 0] :
                      f \in {"write_laz", "dsm_pipeline", "dem_pipeline",
                             "read_dsm", "read_dem"}}

\* ------------------------------------- merge_dem_partitions, merge_partitions

\* The temporary files of a merge, named by what follows tmp_file_prefix.
TileFile(kind, i) == <<kind, i>>
MergedFile(kind) == <<kind, -1>>

\* Lines 295-347.  partitions[k] is <<key, i, dem>>.  Nothing guards the steps
\* before the removals of lines 336-345, so a step that raises leaves behind
\* every file written so far; the removals swallow FileNotFoundError.
merge_dem_partitions(key, partitions, fault, gone) ==
    LET n == Len(partitions)
        dem_files == [k \in 1..n |-> TileFile("dem-part", partitions[k][2])]
        upto(k) == {dem_files[j] : j \in 1..k}
        dems == [k \in 1..n |-> partitions[k][3]]
        Raised(e, files) ==
            [kind |-> "raised", error |-> e, value |-> <<>>, left |-> files \ gone]
    IN  IF fault.step = "write_tile" THEN Raised(fault.step, upto(fault.k))
        ELSE IF fault.step = "open_tile" THEN Raised(fault.step, upto(n))
        ELSE IF n = 0 THEN Raised("IndexError", {})
        ELSE IF fault.step = "merge" THEN Raised(fault.step, upto(n))
        ELSE IF fault.step \in {"write_mosaic", "read_mosaic"}
        THEN Raised(fault.step, upto(n) \cup {MergedFile("dem-merged")})
        ELSE [kind |-> "returned", error |-> "none",
              value |-> <<key, merge(dems)>>, left |-> {}]

MergeDemFaults(n) ==
    {NoFault}
    \cup {[step |-> "write_tile", k |-> k] : k \in 1..n}
    \cup {[step |-> f, k |-> 0] :
            f \in {"open_tile", "merge", "write_mosaic", "read_mosaic"}}

RECURSIVE FirstGone(_, _, _)
FirstGone(files, gone, k) ==
    IF k > Len(files) THEN 0
    ELSE IF files[k] \in gone THEN k
    ELSE FirstGone(files, gone, k + 1)

\* Lines 350-423.  partitions[k] is <<key, i, dsm, dem>>.  As above nothing
\* guards the steps, and here the os.remove calls of lines 411-421 are bare:
\* the first file that is missing raises FileNotFoundError and the files
\* after it stay.
merge_partitions(key, partitions, fault, gone) ==
    LET n == Len(partitions)
        dsm_files == [k \in 1..n |-> TileFile("dsm-part", partitions[k][2])]
        dem_files == [k \in 1..n |-> TileFile("dem-part", partitions[k][2])]
        dsm_upto(k) == {dsm_files[j] : j \in 1..k}
        dem_upto(k) == {dem_files[j] : j \in 1..k}
        all_tiles == dsm_upto(n) \cup dem_upto(n)
        dsms == [k \in 1..n |-> partitions[k][3]]
        dems == [k \in 1..n |-> partitions[k][4]]
        removals == <<MergedFile("dsm-merged"), MergedFile("dem-merged")>>
                    \o dsm_files \o dem_files
        g == FirstGone(removals, gone, 1)
        Raised(e, files) ==
            [kind |-> "raised", error |-> e, value |-> <<>>, left |-> files \ gone]
    IN  IF fault.step = "write_dsm_tile"
        THEN Raised(fault.step, dsm_upto(fault.k) \cup dem_upto(fault.k - 1))
        ELSE IF fault.step = "write_dem_tile"
        THEN Raised(fault.step, dsm_upto(fault.k) \cup dem_upto(fault.k))
        ELSE IF fault.step \in {"open_dsm_tile", "open_dem_tile"}
        THEN Raised(fault.step, all_tiles)
        ELSE IF n = 0 THEN Raised("IndexError", {})
        ELSE IF fault.step \in {"merge_dsm", "merge_dem"}
        THEN Raised(fault.step, all_tiles)
        ELSE IF fault.step = "write_dsm_mosaic"
        THEN Raised(fault.step, all_tiles \cup {MergedFile("dsm-merged")})
        ELSE IF fault.step \in {"write_dem_mosaic", "read_dsm_mosaic"}
        THEN Raised(fault.step, all_tiles \cup {MergedFile("dsm-merged"),
                                                MergedFile("dem-merged")})
        ELSE IF g = 1
        THEN Raised("FileNotFoundError", all_tiles \cup {MergedFile("dem-merged")})
        ELSE IF fault.step = "read_dem_mosaic"
        THEN Raised(fault.step, all_tiles \cup {MergedFile("dem-merged")})
        ELSE IF g # 0
        THEN Raised("FileNotFoundError",
                    {removals[j] : j \in (g + 1)..Len(removals)})
        ELSE [kind |-> "returned", error |-> "none",
              value |-> <<key, merge(dsms), merge(dems)>>, left |-> {}]

MergePartitionsFaults(n) ==
    {NoFault}
    \cup {[step |-> f, k |-> k] : f \in {"write_dsm_tile", "write_dem_tile"},
                                  k \in 1..n}
    \cup {[step |-> f, k |-> 0] :
            f \in {"open_dsm_tile", "open_dem_tile", "merge_dsm", "merge_dem",
                   "write_dsm_mosaic", "write_dem_mosaic", "read_dsm_mosaic",
                   "read_dem_mosaic"}}

\* ------------------------------------------------- the jobs of one source

Pending == [state |-> "pending", value |-> <<>>]
Failed == [state |-> "failed", value |-> <<>>]

NoOp == [op |-> "none", args |-> <<>>, fault |-> NoFault, gone |-> {},
         kind |-> "none", error |-> "none", value |-> <<>>, left |-> {}]

MergeIdle == profile = "idle" /\ tiles = <<>> /\ last_op = NoOp

MergeInit ==
    /\ profile \in {"dem", "models"}
    /\ tiles = [i \in Partitions |-> Pending]
    /\ last_op = NoOp

\* At most one temporary file is missing when the cleanup runs.
GoneChoices(files) == {{}} \cup {{f} : f \in files}

\* A merge is run with one step raising, or with no step raising and at most
\* one file missing when its removals run.
MergeInputs(fault_set, files) ==
    {<<fault, {}>> : fault \in fault_set}
    \cup {<<NoFault, gone>> : gone \in GoneChoices(files)}

Merges == {"merge_dem_partitions", "merge_partitions"}

Ready == {i \in Partitions : tiles[i].state = "ready"}

\* The orders in which the tiles received so far can be handed to a merge.
Orders == {o \in [1..Cardinality(Ready) -> Ready] :
             \A a, b \in DOMAIN o : a # b => o[a] # o[b]}

Record(op, args, fault, gone, r) ==
    [op |-> op, args |-> args, fault |-> fault, gone |-> gone, kind |-> r.kind,
     error |-> r.error, value |-> r.value, left |-> r.left]

\* One partition is processed by create_dem; its tile arrives or the job fails.
RunCreateDem ==
    /\ profile = "dem"
    /\ last_op.op \notin Merges
    /\ \E i \in Partitions, holes \in BOOLEAN, fault \in CreateDemFaults,
          gone \in GoneChoices({"laz", "dem"}) :
         /\ tiles[i].state = "pending"
         /\ LET r == create_dem(file_path, i, holes, fault, gone)
            IN  /\ tiles' = [tiles EXCEPT ![i] =
                               IF r.kind = "returned"
                               THEN [state |-> "ready", value |-> r.value]
                               ELSE Failed]
                /\ last_op' = Record("create_dem", <<i>>, fault, gone, r)
    /\ UNCHANGED <<profile, splitVars, routeVars>>

\* One partition is processed by create_models.
RunCreateModels ==
    /\ profile = "models"
    /\ last_op.op \notin Merges
    /\ \E i \in Partitions, holes \in BOOLEAN, fault \in CreateModelsFaults,
          gone \in GoneChoices({"laz", "dsm", "dem"}) :
         /\ tiles[i].state = "pending"
         /\ LET r == create_models(file_path, i, holes, fault, gone)
            IN  /\ tiles' = [tiles EXCEPT ![i] =
                               IF r.kind = "returned"
                               THEN [state |-> "ready", value |-> r.value]
                               ELSE Failed]
                /\ last_op' = Record("create_models", <<i>>, fault, gone, r)
    /\ UNCHANGED <<profile, splitVars, routeVars>>

\* merge_dem_partitions is called, once, with the tiles received so far.
RunMergeDem ==
    /\ profile = "dem"
    /\ last_op.op \notin Merges
    /\ \E o \in Orders :
         LET partitions == [k \in 1..Len(o) |-> tiles[o[k]].value]
             files == {TileFile("dem-part", i) : i \in Ready}
                      \cup {MergedFile("dem-merged")}
         IN  \E in \in MergeInputs(MergeDemFaults(Len(o)), files) :
                last_op' = Record("merge_dem_partitions", o, in[1], in[2],
                               merge_dem_partitions(file_path, partitions, in[1], in[2]))
    /\ UNCHANGED <<profile, tiles, splitVars, routeVars>>

\* merge_partitions is called, once, with the tiles received so far.
RunMergePartitions ==
    /\ profile = "models"
    /\ last_op.op \notin Merges
    /\ \E o \in Orders :
         LET partitions == [k \in 1..Len(o) |-> tiles[o[k]].value]
             files == {TileFile(kind, i) : kind \in {"dsm-part", "dem-part"},
                                           i \in Ready}
                      \cup {MergedFile("dsm-merged"), MergedFile("dem-merged")}
         IN  \E in \in MergeInputs(MergePartitionsFaults(Len(o)), files) :
                last_op' = Record("merge_partitions", o, in[1], in[2],
                               merge_partitions(file_path, partitions, in[1], in[2]))
    /\ UNCHANGED <<profile, tiles, splitVars, routeVars>>

MergeNext == RunCreateDem \/ RunCreateModels \/ RunMergeDem \/ RunMergePartitions

\* ---------------------------------------------------------- specifications

SplitInit == sq_in \in SplitInputs /\ sq_out = NoCall
SplitNext == SquareSplitCall \/ SquareSplitNextCall

InitSplit == SplitInit /\ RouteIdle /\ MergeIdle
InitRoute == SplitIdle /\ RouteInit /\ MergeIdle
InitMerge == SplitIdle /\ RouteIdle /\ MergeInit

SpecSplit == InitSplit /\ [][SplitNext]_vars
SpecRoute == InitRoute /\ [][RouteNext]_vars
SpecMerge == InitMerge /\ [][MergeNext]_vars

\* One of the three is run from its initial state.
Init == InitSplit \/ InitRoute \/ InitMerge
Next == SplitNext \/ RouteNext \/ MergeNext
Spec == Init /\ [][Next]_vars

\* ------------------------------------------------------------------ claims

\* C1: for a box with x_min < x_max and y_min < y_max and a split factor
\* n > 0, square_split returns n*n cells, cell (i, j) at position i*n + j,
\* spanning [x_min + i*dx, x_min + (i+1)*dx] x [y_min + j*dy, y_min + (j+1)*dy]
\* with dx = (x_max - x_min)/n and dy = (y_max - y_min)/n; the cells cover the
\* box with no gap: the outer cells end on the box and neighbours share their
\* boundary.  The spans are read in floating point, the weakest reading.
C1_GridCoversBox ==
    (sq_out.kind # "none" /\ sq_in.square_splits > 0) =>
        LET n  == sq_in.square_splits
            dx == fdiv(fsub(sq_in.x_max, sq_in.x_min), n)
            dy == fdiv(fsub(sq_in.y_max, sq_in.y_min), n)
            cell(i, j) == sq_out.bounds[i * n + j + 1]
        IN  /\ sq_out.kind = "returned"
            /\ Len(sq_out.bounds) = n * n
            /\ \A i, j \in 0..(n - 1) :
                 /\ cell(i, j)[1] = fadd(sq_in.x_min, fmul(i, dx))
                 /\ cell(i, j)[2] = fadd(sq_in.y_min, fmul(j, dy))
                 /\ cell(i, j)[3] = fadd(sq_in.x_min, fmul(i + 1, dx))
                 /\ cell(i, j)[4] = fadd(sq_in.y_min, fmul(j + 1, dy))
                 /\ i = 0 => cell(i, j)[1] = sq_in.x_min
                 /\ j = 0 => cell(i, j)[2] = sq_in.y_min
                 /\ i = n - 1 => cell(i, j)[3] = sq_in.x_max
                 /\ j = n - 1 => cell(i, j)[4] = sq_in.y_max
                 /\ i < n - 1 => cell(i, j)[3] = cell(i + 1, j)[1]
                 /\ j < n - 1 => cell(i, j)[4] = cell(i, j + 1)[2]

\* C5: square_split called with a split factor n <= 0 ends in an error and
\* returns no list of cells.
C5_NonPositiveFactorRejected ==
    (sq_out.kind # "none" /\ sq_in.square_splits <= 0) => sq_out.kind = "raised"

Count(seq, p) == Cardinality({k \in 1..Len(seq) : seq[k] = p})

\* The header of the source is a bounding box: x_min < x_max and y_min < y_max.
ProperBox ==
    LET h == Header(source) IN h.x_min < h.x_max /\ h.y_min < h.y_max

\* C2: when partition_las has returned, for a source whose header is a
\* bounding box, the payload of partition i holds a point if and only if the
\* point lies in the closed bounds of cell i, once for each time the source
\* holds it.
C2_PayloadIsCellContent ==
    (ProperBox /\ pc = "done" /\ outcome.kind = "returned") =>
        \A i \in 1..Len(sub_bounds), p \in Pool :
            Count(outcome.value[i][3], p) =
                IF InBounds(p, sub_bounds[i]) THEN Count(source, p) ELSE 0

\* The scan of the last chunk ended at the break of line 65 before the last
\* partition.
StoppedEarly == pc = "next_chunk" /\ chunk_no > 0 /\ part < Len(sub_bounds)

\* C9: for a source whose header is a bounding box, the scan of a chunk stops
\* early only when every point of the chunk has been written to some
\* partition; so every point of the source, all of which lie in the box of the
\* header, is in some payload after routing, and the payloads are those of the
\* loop without the early stop.
C9_EarlyStopLosesNothing ==
    /\ (ProperBox /\ StoppedEarly) => unrouted = {}
    /\ (ProperBox /\ pc = "done" /\ outcome.kind = "returned") =>
         /\ \A k \in 1..Len(source) :
              \E i \in 1..Len(sub_bounds) : Count(outcome.value[i][3], source[k]) > 0
         /\ \A i \in 1..Len(sub_bounds) :
              outcome.value[i][3] =
                  SelectSeq(source, LAMBDA p : InBounds(p, sub_bounds[i]))

\* C3: when partition_las is left, on any path, every writer that was opened
\* has been closed exactly once.
C3_WritersClosedOnce ==
    pc = "done" =>
        \A k \in 1..Len(writers) : writers[k] # "unopened" => closes[k] = 1

\* C4: if chunk_iterator raised at some chunk, partition_las ends in an error
\* and returns nothing; a list is returned only when every chunk was read and
\* scanned, and it then holds one <<source_id, partition_index, bytes>> per
\* partition, in partition order, partition_index being the position.
C4_ReadFailureAborts ==
    /\ (pc = "done" /\ read_failed # 0) =>
         outcome.kind = "raised" /\ outcome.value = <<>>
    /\ outcome.kind = "returned" =>
         /\ read_failed = 0
         /\ chunk_no = ChunksIn(source)
         /\ Len(outcome.value) = NumPartitions
         /\ \A k \in 1..Len(outcome.value) :
              outcome.value[k] = <<file_path, k - 1, payload[k]>>

\* C4's case: the second chunk could not be read, after points of the first
\* had been written, and partition_las raised.
C4_Witness ==
    /\ pc = "done"
    /\ read_failed = 2
    /\ \E k \in 1..Len(payload) : payload[k] # <<>>
    /\ outcome.kind = "raised"
    /\ outcome.error = "SourceReadError"

\* The rasters handed to the last merge, in the order given, of one kind.
\* The tuple of a tile is <<key, i, dem>> or <<key, i, dsm, dem>>.
PassedRaster(i, kind) ==
    IF profile = "dem" \/ kind = "dsm" THEN tiles[i].value[3] ELSE tiles[i].value[4]

\* The mosaic of one kind in the value the last merge returned.
Mosaic(kind) ==
    IF last_op.kind # "returned" THEN NoRaster
    ELSE IF profile = "dem" THEN last_op.value[2]
    ELSE IF kind = "dsm" THEN last_op.value[2]
    ELSE last_op.value[3]

Kinds == IF profile = "dem" THEN {"dem"} ELSE {"dsm", "dem"}

\* C6: a merge called with fewer tiles than the source has partitions reports
\* the merge as blocked and returns no mosaic.
C6_IncompleteMergeBlocked ==
    (last_op.op \in Merges /\ Len(last_op.args) < NumPartitions) =>
        last_op.kind = "raised"

\* C7: a mosaic pixel covered by more than one of the tiles passed takes the
\* value of the covering tile of highest partition index whose pixel is valid,
\* whatever the order of the tiles, and is nodata only when all are nodata.
C7_HighestIndexWins ==
    (last_op.op \in Merges /\ last_op.kind = "returned") =>
        \A kind \in Kinds :
            LET passed == {last_op.args[k] : k \in 1..Len(last_op.args)}
            IN  \A p \in DOMAIN Mosaic(kind) :
                    LET covering == {i \in passed : p \in Foot(i)}
                        valid == {i \in covering : PassedRaster(i, kind)[p] # NoData}
                    IN  Cardinality(covering) > 1 =>
                            Mosaic(kind)[p] =
                                IF valid = {} THEN NoData
                                ELSE PassedRaster(MaxOf(valid), kind)[p]

\* C8: in merge_partitions a failure merging or writing one kind leaves the
\* other kind's mosaic produced.
C8_KindsMergeIndependently ==
    (last_op.op = "merge_partitions" /\ Len(last_op.args) > 0) =>
        /\ last_op.fault.step \in {"merge_dsm", "write_dsm_mosaic"} =>
             Mosaic("dem") # NoRaster
        /\ last_op.fault.step \in {"merge_dem", "write_dem_mosaic"} =>
             Mosaic("dsm") # NoRaster

\* C10: create_dem, create_models and both merges leave no temporary file
\* behind on any exit path, and a temporary file already missing when the
\* cleanup runs does not make the operation fail.
C10_NoTemporaryFileLeft ==
    last_op.op # "none" =>
        /\ last_op.left = {}
        /\ last_op.error # "FileNotFoundError"

====
